---------------------------- MODULE Spec2Model ----------------------------
(***************************************************************************)
(* Model of the etcd cluster benchmark tool (benchmark-etcd-cluster.py):   *)
(* the operation executor (perform_operation), the worker loop (run/stop), *)
(* the orchestrator (prepare_benchmark, run_benchmark, report_progress)    *)
(* and the statistics aggregation (analyze_results), and of the            *)
(* scalability analysis (usl_analysis.py), modelled further below.         *)
(*                                                                         *)
(* Numbers.  Times are integer clock ticks.  Latencies are integers.  A    *)
(* statistic is an exact rational [num, den] with den > 0, so that the     *)
(* interpolation of statistics.quantiles and the divisions of              *)
(* analyze_results are computed exactly (floating-point rounding is not    *)
(* modelled).  The wall-clock timestamp of an OperationResult is read by   *)
(* no code of the tool and is left out of the record.                      *)
(***************************************************************************)
EXTENDS Integers, Sequences, FiniteSets, TLC

(***************************************************************************)
(* Bounds of the model.                                                    *)
(***************************************************************************)
\* config.num_clients of the modelled runs
NumClients == 2
\* most results in a result set handed to analyze_results on its own
MaxResults == 3
\* most operations all workers of one run begin together
MaxOps == 2
\* most calls of stop() in one run
MaxStops == 1
\* last clock tick
MaxTime == 2
\* config.duration of the modelled runs, in ticks
Duration == 1

(***************************************************************************)
(* Program constants.                                                      *)
(***************************************************************************)
\* statistics.quantiles(data, n=100)
QuantileN == 100
\* self.percentile(data, 0.95): int(0.95 * 100)
P95 == 95
\* self.percentile(data, 0.99): int(0.99 * 100)
P99 == 99
\* BenchmarkConfig.report_interval
report_interval == 5
\* BenchmarkConfig.warmup_time (the default of --warmup-time)
warmup_time == 5
\* run_warmup: "for _ in range(100)"
WarmupOps == 100

Clients == 1..NumClients

\* config.endpoints
Endpoints == {"ep1", "ep2"}

\* latency_ms values of the result sets handed to analyze_results on its own
Latencies == {1, 3}

\* the times a store call of a run takes, in ms of the performance counter
CallLatencies == {2}

\* the key sets self.etcd_clients can have: etcd3.client fails for none, for
\* the second or for both of the endpoints
HandleSets == {{}, {"ep1"}, {"ep1", "ep2"}}

\* what detect_cluster_nodes can return: the endpoints that answer status()
DetectedSets == {{}, {"ep1"}, {"ep1", "ep2"}}

\* the configuration of the modelled runs: --endpoints given, the default
\* warmup time
RunConfig ==
    [endpoints |-> Endpoints, num_clients |-> NumClients,
     warmup_time |-> warmup_time]

\* the configurations main() can build: --endpoints given or left out
\* (endpoints = [] asks prepare_benchmark to detect the nodes), any client
\* count, warmup on or off
Configs ==
    [endpoints : {{}, Endpoints}, num_clients : 0..NumClients,
     warmup_time : {0, warmup_time}]

\* str(e) of the exceptions a store call raises; str(Exception()) is ""
ErrorTexts == {"", "connection refused"}

NoClientError == "No client available for endpoint"

\* what client.put / client.get does: return, or raise an exception
StoreOutcomes ==
    {[raised |-> FALSE, text |-> ""]} \cup
    {[raised |-> TRUE, text |-> t] : t \in ErrorTexts}

(***************************************************************************)
(* OperationResult and perform_operation.                                  *)
(***************************************************************************)
OperationResult(op, ok, lat, ep, err) ==
    [operation |-> op, success |-> ok, latency_ms |-> lat,
     endpoint |-> ep, error |-> err]

\* perform_operation: is_write and endpoint are the two random draws,
\* handles is the key set of self.etcd_clients, outcome is what the store
\* call does and lat the measured (end_time - start_time) * 1000.
perform_operation(is_write, endpoint, handles, outcome, lat) ==
    LET operation == IF is_write THEN "write" ELSE "read" IN
    IF endpoint \notin handles
    THEN OperationResult(operation, FALSE, 0, endpoint, NoClientError)
    ELSE IF ~outcome.raised
         THEN OperationResult(operation, TRUE, lat, endpoint, "")
         ELSE OperationResult(operation, FALSE, lat, endpoint, outcome.text)

(***************************************************************************)
(* Exact rationals.                                                        *)
(***************************************************************************)
Frac(n, d) == [num |-> n, den |-> d]

Zero == Frac(0, 1)

IsZero(f) == f.num = 0

Leq(f, g) == f.num * g.den <= g.num * f.den

(***************************************************************************)
(* Sequence helpers (Python built-ins).                                    *)
(***************************************************************************)
RECURSIVE SeqSum(_)
SeqSum(s) == IF s = <<>> THEN 0 ELSE Head(s) + SeqSum(Tail(s))

SeqMin(s) == CHOOSE x \in {s[i] : i \in DOMAIN s} :
                 \A y \in {s[i] : i \in DOMAIN s} : x <= y

SeqMax(s) == CHOOSE x \in {s[i] : i \in DOMAIN s} :
                 \A y \in {s[i] : i \in DOMAIN s} : x >= y

RECURSIVE Insert(_, _)
Insert(x, s) ==
    IF s = <<>> THEN <<x>>
    ELSE IF x <= Head(s) THEN <<x>> \o s
         ELSE <<Head(s)>> \o Insert(x, Tail(s))

\* a sort that leaves the list as it is
Sorted_unsorted(s) == s

RECURSIVE Sorted(_)
Sorted(s) == IF s = <<>> THEN <<>> ELSE Insert(Head(s), Sorted(Tail(s)))

(***************************************************************************)
(* statistics.mean / median / quantiles and EtcdBenchmark.percentile.      *)
(***************************************************************************)
mean(data) == Frac(SeqSum(data), Len(data))

median(data) ==
    LET s == Sorted(data)
        n == Len(s)
    IN IF n % 2 = 1 THEN Frac(s[(n + 1) \div 2], 1)
       ELSE Frac(s[n \div 2] + s[n \div 2 + 1], 2)

\* statistics.quantiles(data, n)[i - 1], method "exclusive", for a sample of
\* at least two points: j is clamped to 1..ld-1 and the cut point is
\* interpolated (or extrapolated) from data[j-1] and data[j].
quantile(data, n, i) ==
    LET s == Sorted(data)
        ld == Len(s)
        m == ld + 1
        j0 == (i * m) \div n
        j == IF j0 < 1 THEN 1 ELSE IF j0 > ld - 1 THEN ld - 1 ELSE j0
        delta == i * m - j * n
    IN Frac(s[j] * (n - delta) + s[j + 1] * delta, n)

\* EtcdBenchmark.percentile(data, p) with int(p * 100) = k; a sample of one
\* point is returned as is by statistics.quantiles of Python 3.13 and later
\* (earlier interpreters raise StatisticsError, see QuantilesRaises).
percentile(data, k) ==
    IF data = <<>> THEN Zero
    ELSE IF Len(data) = 1 THEN Frac(data[1], 1)
    ELSE quantile(data, QuantileN, k)

\* statistics.quantiles raises StatisticsError("must have at least two data
\* points") for a sample of one point unless the interpreter is 3.13 or later
QuantilesRaises(data, single_ok) == Len(data) = 1 /\ ~single_ok

Stats(avg, mn, mx, p50, p95, p99) ==
    [avg |-> avg, min |-> mn, max |-> mx, p50 |-> p50, p95 |-> p95, p99 |-> p99]

ZeroStats == Stats(Zero, Zero, Zero, Zero, Zero, Zero)

calc_percentiles(data) ==
    IF data = <<>> THEN ZeroStats
    ELSE Stats(mean(data), Frac(SeqMin(data), 1), Frac(SeqMax(data), 1),
               median(data), percentile(data, P95), percentile(data, P99))

(***************************************************************************)
(* analyze_results.                                                        *)
(***************************************************************************)
RECURSIVE Extend(_, _)
\* all_results after "for client in self.clients: all_results.extend(...)"
\* over the first k clients
Extend(bufs, k) == IF k = 0 THEN <<>> ELSE Extend(bufs, k - 1) \o bufs[k]

IsSuccess(r) == r.success

IsRead(r) == r.operation = "read"

IsWrite(r) == r.operation = "write"

\* [r.latency_ms for r in rs]
latencies_of(rs) == [k \in 1..Len(rs) |-> rs[k].latency_ms]

\* the emptiness test left out
NoResults_unchecked(all) == FALSE

\* "if not all_results: raise RuntimeError"
NoResults(all) == all = <<>>

successful_ops(all) == Len(SelectSeq(all, IsSuccess))

HasErrorText(r) == r.error # ""

\* failures counted as the results that carry an error text
failed_ops_by_error_text(all) == Len(SelectSeq(all, HasErrorText))

failed_ops(all) == Len(all) - successful_ops(all)

reads(all) == SelectSeq(all, IsRead)

writes(all) == SelectSeq(all, IsWrite)

successful_reads(all) == SelectSeq(reads(all), IsSuccess)

successful_writes(all) == SelectSeq(writes(all), IsSuccess)

\* the latencies of every result, failed ones included
latencies_of_all(all) == latencies_of(all)

\* [r.latency_ms for r in all_results if r.success]
successful_latencies(all) == latencies_of(SelectSeq(all, IsSuccess))

read_latencies(all) == latencies_of(successful_reads(all))

write_latencies(all) == latencies_of(successful_writes(all))

\* the distribution counted over the successful results only
endpoint_counts_of_successes(all) ==
    [e \in {all[i].endpoint : i \in {k \in DOMAIN all : all[k].success}} |->
        Cardinality({i \in DOMAIN all :
                        all[i].success /\ all[i].endpoint = e})]

\* endpoint_counts: a defaultdict(int), one key per endpoint that occurs
endpoint_counts(all) ==
    [e \in {all[i].endpoint : i \in DOMAIN all} |->
        Cardinality({i \in DOMAIN all : all[i].endpoint = e})]

\* list(set(errors)): the order of the list is that of a set, so the list
\* is modelled as the set of its elements
errors(all) ==
    {all[i].error : i \in {k \in DOMAIN all :
                              ~all[k].success /\ all[k].error # ""}}

None == "None"

\* BenchmarkResults(): self.results as the constructor of EtcdBenchmark sets it
DefaultResults ==
    [total_operations |-> 0, successful_operations |-> 0,
     failed_operations |-> 0, total_reads |-> 0, total_writes |-> 0,
     successful_reads |-> 0, successful_writes |-> 0,
     duration_seconds |-> 0, throughput_ops_per_sec |-> Zero,
     read_throughput |-> Zero, write_throughput |-> Zero,
     avg_latency_ms |-> Zero, min_latency_ms |-> Zero,
     max_latency_ms |-> Zero, p50_latency_ms |-> Zero,
     p95_latency_ms |-> Zero, p99_latency_ms |-> Zero,
     read_latency_stats |-> None, write_latency_stats |-> None,
     endpoint_distribution |-> None, errors |-> None]

\* how analyze_results(actual_duration) ends: the exception it raises, or
\* "returned".  single_ok tells whether statistics.quantiles accepts a
\* sample of one point (Python 3.13 and later) or raises StatisticsError.
analyze_outcome(all, actual_duration, single_ok) ==
    IF NoResults(all) THEN "RuntimeError"
    ELSE IF \/ QuantilesRaises(successful_latencies(all), single_ok)
            \/ QuantilesRaises(read_latencies(all), single_ok)
            \/ QuantilesRaises(write_latencies(all), single_ok)
         THEN "StatisticsError"
    ELSE IF actual_duration = 0 THEN "ZeroDivisionError"
    ELSE "returned"

\* the BenchmarkResults record analyze_results builds when it returns
analyze_results(all, actual_duration) ==
    LET overall == calc_percentiles(successful_latencies(all))
        read_stats == calc_percentiles(read_latencies(all))
        write_stats == calc_percentiles(write_latencies(all))
    IN [total_operations |-> Len(all),
        successful_operations |-> successful_ops(all),
        failed_operations |-> failed_ops(all),
        total_reads |-> Len(reads(all)),
        total_writes |-> Len(writes(all)),
        successful_reads |-> Len(successful_reads(all)),
        successful_writes |-> Len(successful_writes(all)),
        duration_seconds |-> actual_duration,
        throughput_ops_per_sec |-> Frac(successful_ops(all), actual_duration),
        read_throughput |-> Frac(Len(successful_reads(all)), actual_duration),
        write_throughput |-> Frac(Len(successful_writes(all)), actual_duration),
        avg_latency_ms |-> overall.avg, min_latency_ms |-> overall.min,
        max_latency_ms |-> overall.max, p50_latency_ms |-> overall.p50,
        p95_latency_ms |-> overall.p95, p99_latency_ms |-> overall.p99,
        read_latency_stats |-> read_stats,
        write_latency_stats |-> write_stats,
        endpoint_distribution |-> endpoint_counts(all),
        errors |-> errors(all)]

(***************************************************************************)
(* State.                                                                  *)
(***************************************************************************)
VARIABLES
    config,             \* the BenchmarkConfig main() builds from its arguments
    warmup_client,      \* the client object of run_warmup, while it exists
    usl_results,        \* usl_analysis: results of load_benchmark_results
    usl_pc,             \* usl_analysis: where its main() is
    fitted,             \* usl_analysis: workloads the fitting loop has done
    analyses,           \* usl_analysis: analyses of create_usl_analysis_plots
    prediction,         \* usl_analysis: a call of calculate_usl_predictions
    fit_failures,       \* usl_analysis: workloads with "USL fitting failed"
    mixed,              \* benchmark.py: locals of benchmark_mixed_workload
    cw,                 \* benchmark.py: locals of benchmark_concurrent_writes
    now,                \* the clock (time.time()), in ticks
    main_pc,            \* where main() is
    warmup_ops,         \* warmup operations issued by run_warmup
    spawned,            \* threads started by run_benchmark so far
    joined,             \* threads joined by run_benchmark so far
    bench_start,        \* start_time of run_benchmark
    next_poll,          \* when report_progress wakes from time.sleep(1)
    last_report,        \* last_report of report_progress
    actual_duration,    \* what run_benchmark returns
    etcd_clients,       \* per client: the endpoints with a client handle
    client_results,     \* per client: self.results
    running,            \* per client: self.running
    pc,                 \* per client: where its thread is
    run_start,          \* per client: start_time of run
    inflight,           \* per client: the operation perform_operation is in
    all_results,        \* all_results of analyze_results
    results,            \* EtcdBenchmark.results
    analysis,           \* how analyze_results ended
    stop_called,        \* history: stop() has been called on the client
    started_after_stop  \* history: operations begun since that stop()

vars == <<mixed, cw, fit_failures,
          config, warmup_client, usl_results, usl_pc, fitted, analyses,
          prediction, now, main_pc, warmup_ops, spawned, joined, bench_start, next_poll,
          last_report, actual_duration, etcd_clients, client_results, running,
          pc, run_start, inflight, all_results, results, analysis,
          stop_called, started_after_stop>>

\* the state of usl_analysis.py
usl_vars == <<usl_results, usl_pc, fitted, analyses, prediction, fit_failures>>

\* the state of benchmark.py
ctl_vars == <<mixed, cw>>

main_vars == <<config, warmup_client, main_pc, warmup_ops, spawned, joined, bench_start, next_poll,
               last_report, actual_duration, etcd_clients, all_results,
               results, analysis>>

Returned == [raised |-> FALSE, text |-> ""]

NoOperation ==
    [is_write |-> FALSE, endpoint |-> "", outcome |-> Returned,
     latency_ms |-> 0]

\* the thread of a client has ended: run returned, or an exception left it
Terminated(i) == pc[i] \in {"done", "crashed"}

\* operations begun in this run: finished, in flight, or about to be drawn
RECURSIVE TotalLen(_, _)
TotalLen(bufs, k) == IF k = 0 THEN 0 ELSE TotalLen(bufs, k - 1) + Len(bufs[k])

OpsBegun ==
    TotalLen(client_results, NumClients)
        + Cardinality({i \in Clients : pc[i] \in {"body", "call", "ret"}})

\* usl_analysis.py is not running
NoAnalysis ==
    /\ mixed = None
    /\ cw = None
    /\ fit_failures = {}
    /\ usl_results = <<>>
    /\ usl_pc = "idle"
    /\ fitted = 0
    /\ analyses = <<>>
    /\ prediction = None

\* EtcdBenchmark(config) has been constructed and nothing has run
NoRun ==
    /\ now = 0
    /\ warmup_client = None
    /\ main_pc = "start"
    /\ warmup_ops = 0
    /\ spawned = 0
    /\ joined = 0
    /\ bench_start = 0
    /\ next_poll = 0
    /\ last_report = 0
    /\ actual_duration = 0
    /\ etcd_clients = [i \in Clients |-> {}]
    /\ client_results = [i \in Clients |-> <<>>]
    /\ running = [i \in Clients |-> FALSE]
    /\ pc = [i \in Clients |-> "new"]
    /\ run_start = [i \in Clients |-> 0]
    /\ inflight = [i \in Clients |-> NoOperation]
    /\ all_results = <<>>
    /\ results = DefaultResults
    /\ analysis = "none"
    /\ stop_called = [i \in Clients |-> FALSE]
    /\ started_after_stop = [i \in Clients |-> 0]

Init == config = RunConfig /\ NoRun /\ NoAnalysis

(***************************************************************************)
(* The clock.                                                              *)
(***************************************************************************)
\* The tool only takes differences of clock readings, and run_benchmark is
\* the first to read the clock: the clock is counted from that reading.  It
\* runs to MaxTime, and on for as long as the deadline of a worker or of
\* report_progress is still ahead.
Tick ==
    /\ main_pc \notin {"start", "warmup", "prepared"}
    /\ \/ now < MaxTime
       \/ main_pc = "progress" /\ now - bench_start < Duration
       \/ \E i \in Clients : /\ pc[i] \in {"loop", "body", "call", "ret"}
                              /\ now - run_start[i] < Duration
    /\ now' = now + 1
    /\ UNCHANGED <<usl_vars, ctl_vars, main_vars, client_results, running, pc,
                   run_start, inflight, stop_called, started_after_stop>>

(***************************************************************************)
(* EtcdBenchmarkClient.run and stop.                                       *)
(***************************************************************************)
\* run: self.running = True; start_time = time.time()
RunStart(i) ==
    /\ pc[i] = "created"
    /\ running' = [running EXCEPT ![i] = TRUE]
    /\ run_start' = [run_start EXCEPT ![i] = now]
    /\ pc' = [pc EXCEPT ![i] = "loop"]
    /\ UNCHANGED <<usl_vars, ctl_vars,
                   now, main_vars, client_results, inflight, stop_called,
                   started_after_stop>>

\* a loop test that looks at the running flag alone
LoopCondition_flag_only(i) == running[i]

\* the loop condition of run
LoopCondition(i) == running[i] /\ (now - run_start[i]) < Duration

\* run: the test at the top of the while loop (the model lets a worker
\* pass it into the loop body while operations are left to begin)
LoopTop(i) ==
    /\ pc[i] = "loop"
    /\ LoopCondition(i) => OpsBegun < MaxOps
    /\ IF LoopCondition(i)
       THEN /\ pc' = [pc EXCEPT ![i] = "body"]
            /\ UNCHANGED run_start
       ELSE /\ pc' = [pc EXCEPT ![i] = "done"]
            /\ run_start' = [run_start EXCEPT ![i] = 0]
    /\ UNCHANGED <<usl_vars, ctl_vars,
                   now, main_vars, client_results, running, inflight,
                   stop_called, started_after_stop>>

\* a list that holds the new result only
results_replaced(buf, r) == <<r>>

\* run: self.results.append(result)
results_append(buf, r) == Append(buf, r)

\* run calls perform_operation: the two random draws, then either the
\* result of the "no client" branch (appended, then time.sleep(0.001)) or the
\* store call begins
BeginOperation(i) ==
    /\ pc[i] = "body"
    /\ \E is_write \in BOOLEAN, endpoint \in config.endpoints :
          IF endpoint \notin etcd_clients[i]
          THEN /\ client_results' = [client_results EXCEPT ![i] =
                     results_append(@, perform_operation(is_write, endpoint,
                                         etcd_clients[i], Returned, 0))]
               /\ pc' = [pc EXCEPT ![i] = "loop"]
               /\ UNCHANGED inflight
          ELSE /\ inflight' = [inflight EXCEPT ![i] =
                     [is_write |-> is_write, endpoint |-> endpoint,
                      outcome |-> Returned, latency_ms |-> 0]]
               /\ pc' = [pc EXCEPT ![i] = "call"]
               /\ UNCHANGED client_results
    /\ started_after_stop' =
          [started_after_stop EXCEPT ![i] = IF stop_called[i] THEN @ + 1 ELSE @]
    /\ UNCHANGED <<usl_vars, ctl_vars,
                   now, main_vars, running, run_start, stop_called>>

\* client.put / client.get returns or raises; lat is the time the call took
\* on the performance counter, (end_time - start_time) * 1000
StoreResponds(i) ==
    /\ pc[i] = "call"
    /\ \E o \in StoreOutcomes, lat \in CallLatencies :
          inflight' = [inflight EXCEPT ![i].outcome = o,
                                       ![i].latency_ms = lat]
    /\ pc' = [pc EXCEPT ![i] = "ret"]
    /\ UNCHANGED <<usl_vars, ctl_vars,
                   now, main_vars, client_results, running, run_start,
                   stop_called, started_after_stop>>

\* an except clause that matches none of the store's exceptions
Caught_nothing(outcome) == FALSE

\* "except Exception as e" catches what the store call raised
Caught(outcome) == TRUE

\* perform_operation returns its result, run appends it and sleeps 1 ms;
\* an exception that is not caught leaves run and ends the thread
ReturnResult(i) ==
    /\ pc[i] = "ret"
    /\ LET op == inflight[i] IN
       IF op.outcome.raised /\ ~Caught(op.outcome)
       THEN /\ pc' = [pc EXCEPT ![i] = "crashed"]
            /\ UNCHANGED client_results
       ELSE /\ client_results' = [client_results EXCEPT ![i] =
                  results_append(@, perform_operation(op.is_write,
                                     op.endpoint, etcd_clients[i], op.outcome,
                                     op.latency_ms))]
            /\ pc' = [pc EXCEPT ![i] = "loop"]
    /\ inflight' = [inflight EXCEPT ![i] = NoOperation]
    /\ UNCHANGED <<usl_vars, ctl_vars,
                   now, main_vars, running, run_start, stop_called,
                   started_after_stop>>

\* stop(), called from another thread while the client's thread exists
Stop(i) ==
    /\ pc[i] \in {"created", "loop", "body", "call", "ret"}
    /\ Cardinality({j \in Clients : stop_called[j]}) < MaxStops
    /\ running' = [running EXCEPT ![i] = FALSE]
    /\ stop_called' = [stop_called EXCEPT ![i] = TRUE]
    /\ UNCHANGED <<usl_vars, ctl_vars,
                   now, main_vars, client_results, pc, run_start, inflight,
                   started_after_stop>>

(***************************************************************************)
(* EtcdBenchmark: prepare_benchmark, run_benchmark, report_progress,       *)
(* analyze_results, as main() calls them.                                  *)
(***************************************************************************)
\* prepare_benchmark up to the warmup: with no endpoints configured the
\* nodes are detected and RuntimeError is raised when there is none (main
\* catches it and reports the failure); then every client object is
\* constructed (a handle for each endpoint etcd3.client accepts, the others
\* skipped with a message); with warmup_time > 0 run_warmup constructs a
\* client of its own
PrepareBenchmark ==
    /\ main_pc = "start"
    /\ \E detected \in DetectedSets :
          LET endpoints == IF config.endpoints = {} THEN detected
                           ELSE config.endpoints
          IN IF endpoints = {}
             THEN /\ main_pc' = "failed"
                  /\ UNCHANGED <<config, etcd_clients, warmup_client>>
             ELSE \E handles \in SUBSET endpoints, own \in SUBSET endpoints :
                     /\ handles \in HandleSets
                     /\ own \in HandleSets
                     /\ config' = [config EXCEPT !.endpoints = endpoints]
                     /\ etcd_clients' =
                           [i \in Clients |->
                               IF i <= config.num_clients THEN handles ELSE {}]
                     /\ IF config.warmup_time > 0
                        THEN /\ main_pc' = "warmup"
                             /\ warmup_client' =
                                   [etcd_clients |-> own, results |-> <<>>,
                                    returned |-> None]
                        ELSE /\ main_pc' = "prepared"
                             /\ warmup_client' = None
    /\ UNCHANGED <<usl_vars, ctl_vars, now, warmup_ops, spawned, joined, bench_start,
                   next_poll, last_report, actual_duration, client_results,
                   running, pc, run_start, inflight, all_results, results,
                   analysis, stop_called, started_after_stop>>

\* the worker buffers with a warmup result kept in the first of them
warmup_result_kept(bufs, r) == [bufs EXCEPT ![1] = Append(@, r)]

\* run_warmup drops what perform_operation returns: no buffer changes
warmup_result_dropped(bufs, r) == bufs

\* run_warmup: one pass of "for _ in range(100)", warmup_client.
\* perform_operation() and time.sleep(0.01); after the last pass run_warmup
\* and prepare_benchmark return and the warmup client is gone
RunWarmup ==
    /\ main_pc = "warmup"
    /\ IF warmup_ops < WarmupOps
       THEN /\ warmup_ops' = warmup_ops + 1
            /\ UNCHANGED main_pc
            /\ \E is_write \in BOOLEAN, endpoint \in config.endpoints,
                  o \in StoreOutcomes, lat \in CallLatencies :
                  LET r == perform_operation(is_write, endpoint,
                                             warmup_client.etcd_clients, o, lat)
                  IN /\ warmup_client' = [warmup_client EXCEPT !.returned = r]
                     /\ client_results' =
                           warmup_result_dropped(client_results, r)
       ELSE /\ main_pc' = "prepared"
            /\ warmup_client' = None
            /\ UNCHANGED <<warmup_ops, client_results>>
    /\ UNCHANGED <<usl_vars, ctl_vars, config, now, spawned, joined, bench_start,
                   next_poll, last_report, actual_duration, etcd_clients,
                   running, pc, run_start, inflight, all_results, results,
                   analysis, stop_called, started_after_stop>>

\* run_benchmark: start_time = time.time()
RunBenchmark ==
    /\ main_pc = "prepared"
    /\ bench_start' = now
    /\ main_pc' = IF config.num_clients = 0 THEN "progress" ELSE "spawn"
    /\ next_poll' = now
    /\ UNCHANGED <<usl_vars, ctl_vars, config, warmup_client,
                   now, warmup_ops, spawned, joined, last_report,
                   actual_duration, etcd_clients, client_results, running, pc,
                   run_start, inflight, all_results, results, analysis,
                   stop_called, started_after_stop>>

\* "for client in self.clients" ends one client early
AllStarted_one_short(k) == k + 1 >= config.num_clients

\* "for client in self.clients" has started a thread for every client
AllStarted(k) == k = config.num_clients

\* run_benchmark: thread.start() for the next client; after the last one,
\* report_progress is entered (last_report = 0)
StartThread ==
    /\ main_pc = "spawn"
    /\ LET k == spawned + 1 IN
       /\ pc' = [pc EXCEPT ![k] = "created"]
       /\ spawned' = k
       /\ main_pc' = IF AllStarted(k) THEN "progress" ELSE "spawn"
    /\ next_poll' = now
    /\ UNCHANGED <<usl_vars, ctl_vars, config, warmup_client,
                   now, warmup_ops, joined, bench_start, last_report,
                   actual_duration, etcd_clients, client_results, running,
                   run_start, inflight, all_results, results, analysis,
                   stop_called, started_after_stop>>

\* a progress loop that ends on its first pass
ProgressEnds_at_once(elapsed) == TRUE

\* a progress loop that never ends
ProgressEnds_never(elapsed) == FALSE

\* report_progress: "if elapsed >= self.config.duration: break"
ProgressEnds(elapsed) == elapsed >= Duration

\* report_progress: one iteration of its loop.  It breaks once the duration
\* has elapsed; otherwise it reads the buffer lengths for its progress line
\* when a report is due, and sleeps one second.
ReportProgress ==
    /\ main_pc = "progress"
    /\ now >= next_poll
    /\ LET elapsed == now - bench_start IN
       IF ProgressEnds(elapsed)
       THEN /\ main_pc' = "join"
            /\ UNCHANGED <<last_report, next_poll>>
       ELSE /\ last_report' = IF elapsed - last_report >= report_interval
                              THEN elapsed ELSE last_report
            /\ next_poll' = now + 1
            /\ UNCHANGED main_pc
    /\ UNCHANGED <<usl_vars, ctl_vars, config, warmup_client,
                   now, warmup_ops, spawned, joined, bench_start,
                   actual_duration, etcd_clients, client_results, running, pc,
                   run_start, inflight, all_results, results, analysis,
                   stop_called, started_after_stop>>

\* a join that does not wait
JoinReturns_at_once(k) == TRUE

\* thread.join() returns only when the thread has ended
JoinReturns(k) == Terminated(k)

\* run_benchmark: thread.join() for the next thread; after the last one,
\* actual_duration = end_time - start_time is returned
JoinThread ==
    /\ main_pc = "join"
    /\ IF joined = config.num_clients
       THEN /\ actual_duration' = now - bench_start
            /\ main_pc' = "analyze"
            /\ UNCHANGED joined
       ELSE /\ JoinReturns(joined + 1)
            /\ joined' = joined + 1
            /\ UNCHANGED <<actual_duration, main_pc>>
    /\ UNCHANGED <<usl_vars, ctl_vars, config, warmup_client,
                   now, warmup_ops, spawned, bench_start, next_poll,
                   last_report, etcd_clients, client_results, running, pc,
                   run_start, inflight, all_results, results, analysis,
                   stop_called, started_after_stop>>

\* analyze_results(actual_duration): the buffers are merged, then the record
\* is built and stored in self.results, unless an exception is raised
\* (main catches it and reports the failure)
AnalyzeResults ==
    /\ main_pc = "analyze"
    /\ \E single_ok \in BOOLEAN :
          LET all == Extend(client_results, config.num_clients)
              how == analyze_outcome(all, actual_duration, single_ok)
          IN /\ main_pc' = IF how = "returned" THEN "finished" ELSE "failed"
             /\ all_results' = all
             /\ analysis' = how
             /\ results' = IF how = "returned"
                           THEN analyze_results(all, actual_duration)
                           ELSE results
    /\ UNCHANGED <<usl_vars, ctl_vars, config, warmup_client,
                   now, warmup_ops, spawned, joined, bench_start, next_poll,
                   last_report, actual_duration, etcd_clients, client_results,
                   running, pc, run_start, inflight, stop_called,
                   started_after_stop>>

Next ==
    \/ Tick
    \/ PrepareBenchmark
    \/ RunWarmup
    \/ RunBenchmark
    \/ StartThread
    \/ ReportProgress
    \/ JoinThread
    \/ AnalyzeResults
    \/ \E i \in Clients : RunStart(i)
    \/ \E i \in Clients : LoopTop(i)
    \/ \E i \in Clients : BeginOperation(i)
    \/ \E i \in Clients : StoreResponds(i)
    \/ \E i \in Clients : ReturnResult(i)

\* the run as main() drives it: nothing in the tool calls stop()
Spec == Init /\ [][Next]_vars

\* the run with stop() called on workers from outside
NextStop == Next \/ \E i \in Clients : Stop(i)

SpecStop == Init /\ [][NextStop]_vars

\* the run for every configuration main() can build
InitSetup == config \in Configs /\ NoRun /\ NoAnalysis

SpecSetup == InitSetup /\ [][Next]_vars

\* the runs in which stop() can reach every worker: endpoints given, the
\* default warmup, and no more clients than calls of stop()
InitEarly ==
    /\ config \in {c \in Configs : /\ c.endpoints = Endpoints
                                  /\ c.warmup_time = warmup_time
                                  /\ c.num_clients <= MaxStops}
    /\ NoRun
    /\ NoAnalysis

SpecEarly == InitEarly /\ [][NextStop]_vars

\* the variables that tell where main() and the threads are: every step
\* of the timed phase changes one of them
position == <<now, main_pc, spawned, joined, next_poll, pc>>

\* a run against one endpoint without warmup (--endpoints ep1
\* --warmup-time 0), from the construction of the benchmark to the return
\* of run_benchmark
InitLive ==
    /\ config = [RunConfig EXCEPT !.endpoints = {"ep1"}, !.warmup_time = 0]
    /\ NoRun
    /\ NoAnalysis

NextLive ==
    \/ Tick
    \/ PrepareBenchmark
    \/ RunBenchmark
    \/ StartThread
    \/ ReportProgress
    \/ JoinThread
    \/ \E i \in Clients :
          \/ RunStart(i)
          \/ LoopTop(i)
          \/ BeginOperation(i)
          \/ StoreResponds(i)
          \/ ReturnResult(i)

\* the next step of main(): its position enables one of them at most
MainStep ==
    \/ PrepareBenchmark
    \/ RunBenchmark
    \/ StartThread
    \/ ReportProgress
    \/ JoinThread

\* the next step of the thread of worker i
WorkerStep(i) ==
    \/ RunStart(i)
    \/ LoopTop(i)
    \/ BeginOperation(i)
    \/ StoreResponds(i)
    \/ ReturnResult(i)

\* the scheduling of a run: the clock advances, main() goes on, every
\* thread that can take a step takes it, and every store call returns
Fairness ==
    /\ WF_position(Tick)
    /\ WF_position(MainStep)
    /\ \A i \in Clients : WF_position(WorkerStep(i))

\* the timed phase under that scheduling
SpecLive == InitLive /\ [][NextLive]_vars /\ Fairness

(***************************************************************************)
(* analyze_results on its own: the state after run_benchmark has returned, *)
(* with the worker buffers drawn from bounded sets and an actual duration  *)
(* of zero or of the configured duration.                                  *)
(***************************************************************************)
\* the results perform_operation can return to a client with these handles
Producible(handles) ==
    {perform_operation(w, e, handles, o, l) :
        w \in BOOLEAN, e \in Endpoints, o \in StoreOutcomes, l \in Latencies}

BoundedSeq(S, n) == UNION {[1..k -> S] : k \in 0..n}

\* the results of a sample that client i holds when the sample is dealt to
\* the clients in turn
Deal(sample, i) ==
    LET cnt == IF Len(sample) < i THEN 0
               ELSE (Len(sample) - i) \div NumClients + 1
    IN [k \in 1..cnt |-> sample[(k - 1) * NumClients + i]]

InitAgg ==
    /\ config = RunConfig
    /\ warmup_client = None
    /\ NoAnalysis
    /\ now = 0
    /\ main_pc = "analyze"
    /\ warmup_ops = WarmupOps
    /\ spawned = NumClients
    /\ joined = NumClients
    /\ bench_start = 0
    /\ next_poll = 0
    /\ last_report = 0
    /\ actual_duration \in {0, Duration}
    /\ \E handles \in HandleSets :
          /\ etcd_clients = [i \in Clients |-> handles]
          /\ \E sample \in BoundedSeq(Producible(handles), MaxResults) :
                client_results = [i \in Clients |-> Deal(sample, i)]
    /\ running = [i \in Clients |-> TRUE]
    /\ pc = [i \in Clients |-> "done"]
    /\ run_start = [i \in Clients |-> 0]
    /\ inflight = [i \in Clients |-> NoOperation]
    /\ all_results = <<>>
    /\ results = DefaultResults
    /\ analysis = "none"
    /\ stop_called = [i \in Clients |-> FALSE]
    /\ started_after_stop = [i \in Clients |-> 0]

NextAgg == AnalyzeResults

SpecAgg == InitAgg /\ [][NextAgg]_vars

(***************************************************************************)
(* Properties of analyze_results (specification SpecAgg).                  *)
(***************************************************************************)
\* the positions of the worker buffers: client i, index k
Held == UNION {{<<i, k>> : k \in DOMAIN client_results[i]} : i \in Clients}

HeldResult(ik) == client_results[ik[1]][ik[2]]

AnyHeld == Held # {}

AllFailed == \A ik \in Held : ~HeldResult(ik).success

\* the successful latencies of a kind ("read", "write"), or of both kinds
SampleSize(kinds) ==
    Cardinality({ik \in Held : /\ HeldResult(ik).success
                               /\ HeldResult(ik).operation \in kinds})

BothKinds == {"read", "write"}

\* some latency sample has exactly one value: statistics.quantiles is then
\* called with a single data point
SinglePointSample ==
    \E kinds \in {BothKinds, {"read"}, {"write"}} : SampleSize(kinds) = 1

Analyzed == analysis # "none"

RECURSIVE SumOver(_, _)
SumOver(f, S) ==
    IF S = {} THEN 0
    ELSE LET x == CHOOSE y \in S : TRUE IN f[x] + SumOver(f, S \ {x})

\* C1: for every non-empty merged result set, the record analyze_results
\* returns has successful_operations + failed_operations = total_operations,
\* and total_operations is the number of results the worker buffers hold.
C1_SuccessPlusFailedIsTotal ==
    analysis = "returned" =>
        /\ results.successful_operations + results.failed_operations
              = results.total_operations
        /\ results.total_operations = Cardinality(Held)
        /\ results.successful_operations >= 0
        /\ results.failed_operations >= 0

\* a record was returned for a set with successes, failures that carry an
\* error text and failures that carry none
C1_Witness ==
    /\ analysis = "returned"
    /\ results.successful_operations > 0
    /\ \E ik \in Held : ~HeldResult(ik).success /\ HeldResult(ik).error = ""
    /\ \E ik \in Held : ~HeldResult(ik).success /\ HeldResult(ik).error # ""

\* C2: the counts of endpoint_distribution sum to total_operations, and the
\* count of an endpoint is the number of attempted operations (successful or
\* failed) whose result names that endpoint.
C2_EndpointDistributionSumsToTotal ==
    analysis = "returned" =>
        LET dist == results.endpoint_distribution IN
        /\ SumOver(dist, DOMAIN dist) = results.total_operations
        /\ DOMAIN dist = {HeldResult(ik).endpoint : ik \in Held}
        /\ \A e \in DOMAIN dist :
              dist[e] = Cardinality({ik \in Held : HeldResult(ik).endpoint = e})

\* a record whose distribution has two endpoints, with a success and a
\* failure among the operations
C2_Witness ==
    /\ analysis = "returned"
    /\ Cardinality(DOMAIN results.endpoint_distribution) = 2
    /\ results.successful_operations > 0
    /\ results.failed_operations > 0

\* C3: analyze_results returns throughput_ops_per_sec, read_throughput and
\* write_throughput each exactly 0, raising nothing, whenever actual_duration
\* is 0 or the corresponding successful count is 0.  (Stated for non-empty
\* result sets without a single-point latency sample, which fail earlier.)
C3_ZeroThroughputWithoutException ==
    (Analyzed /\ AnyHeld /\ ~SinglePointSample) =>
        /\ (actual_duration = 0 \/ SampleSize(BothKinds) = 0) =>
              /\ analysis = "returned"
              /\ IsZero(results.throughput_ops_per_sec)
        /\ (actual_duration = 0 \/ SampleSize({"read"}) = 0) =>
              /\ analysis = "returned"
              /\ IsZero(results.read_throughput)
        /\ (actual_duration = 0 \/ SampleSize({"write"}) = 0) =>
              /\ analysis = "returned"
              /\ IsZero(results.write_throughput)

AllZero(st) ==
    /\ IsZero(st.avg) /\ IsZero(st.min) /\ IsZero(st.max)
    /\ IsZero(st.p50) /\ IsZero(st.p95) /\ IsZero(st.p99)

\* C4: if every operation of a non-empty result set failed, analyze_results
\* completes without error with failed_operations = total_operations, every
\* latency statistic 0 and a non-empty errors list, whatever text the
\* failures carry.  (Stated for a positive actual_duration.)
C4_AllFailedIsReportable ==
    (Analyzed /\ AnyHeld /\ AllFailed /\ actual_duration > 0) =>
        /\ analysis = "returned"
        /\ results.failed_operations = results.total_operations
        /\ IsZero(results.avg_latency_ms) /\ IsZero(results.min_latency_ms)
        /\ IsZero(results.max_latency_ms) /\ IsZero(results.p50_latency_ms)
        /\ IsZero(results.p95_latency_ms) /\ IsZero(results.p99_latency_ms)
        /\ AllZero(results.read_latency_stats)
        /\ AllZero(results.write_latency_stats)
        /\ results.errors # {}

Ordered(p50, p95, p99) == Leq(p50, p95) /\ Leq(p95, p99)

\* C5: for any non-empty sample of successful latencies, a sample of exactly
\* one value included, the statistics analyze_results computes satisfy
\* p50 <= p95 <= p99, for the overall, the read and the write sample.
\* (Stated for a positive actual_duration.)
C5_PercentilesOrdered ==
    (Analyzed /\ SampleSize(BothKinds) > 0 /\ actual_duration > 0) =>
        /\ analysis = "returned"
        /\ Ordered(results.p50_latency_ms, results.p95_latency_ms,
                   results.p99_latency_ms)
        /\ SampleSize({"read"}) > 0 =>
              Ordered(results.read_latency_stats.p50,
                      results.read_latency_stats.p95,
                      results.read_latency_stats.p99)
        /\ SampleSize({"write"}) > 0 =>
              Ordered(results.write_latency_stats.p50,
                      results.write_latency_stats.p95,
                      results.write_latency_stats.p99)

\* C6: analyze_results on an empty merged result set (every worker buffer
\* empty) fails with the error "No results to analyze" before any statistic
\* is computed, and leaves no BenchmarkResults record behind.
C6_EmptyResultSetIsRejected ==
    (Analyzed /\ ~AnyHeld) =>
        /\ analysis = "RuntimeError"
        /\ main_pc = "failed"
        /\ results = DefaultResults

\* analyze_results has run on a set of empty buffers
C6_Witness == Analyzed /\ ~AnyHeld /\ main_pc = "failed"

(***************************************************************************)
(* Properties of the workers and of the run (Spec, SpecStop).              *)
(***************************************************************************)
\* C7: perform_operation always returns an OperationResult: when the store
\* call raises, run appends a result with success = false that carries the
\* error text, no exception reaches the worker loop, and the worker goes on
\* to the next test of its loop.
C7_FailureIsReturnedAsResult ==
    [][\A i \in Clients :
          /\ pc'[i] # "crashed"
          /\ (pc[i] = "ret" /\ pc'[i] # "ret") =>
                /\ pc'[i] = "loop"
                /\ Len(client_results'[i]) = Len(client_results[i]) + 1
                /\ SubSeq(client_results'[i], 1, Len(client_results[i]))
                      = client_results[i]
                /\ LET r == client_results'[i][Len(client_results'[i])]
                       op == inflight[i]
                   IN /\ r.success = ~op.outcome.raised
                      /\ op.outcome.raised => r.error = op.outcome.text
                      /\ r.endpoint = op.endpoint
                      /\ r.operation = IF op.is_write THEN "write" ELSE "read"
      ]_vars

\* a worker whose first store call raised has its failure in the buffer and
\* has completed a second operation
C7_Witness ==
    \E i \in Clients :
        /\ Len(client_results[i]) = 2
        /\ ~client_results[i][1].success
        /\ client_results[i][1].error \in ErrorTexts

\* C8: every OperationResult perform_operation produces carries a non-empty
\* error message if and only if its success flag is false.
C8_ErrorIffFailure ==
    \A ik \in Held : (HeldResult(ik).error # "") <=> ~HeldResult(ik).success

\* C9: once stop() has been called on a worker, the worker starts at most
\* one further operation, whenever the call arrives, also between the
\* creation of the thread and the first statement of run.
C9_AtMostOneOperationAfterStop ==
    \A i \in Clients : started_after_stop[i] <= 1

Occurrences(r, s) == Cardinality({k \in DOMAIN s : s[k] = r})

\* C10: merging begins only after every worker thread has ended, and the
\* merged collection is the multiset union of the worker buffers: as long as
\* the sum of the buffer lengths, each result as often as the buffers hold
\* it, and no buffer grows after the merge.
C10_MergeAfterAllWorkersEnded ==
    /\ main_pc \in {"analyze", "finished", "failed"} =>
          \A i \in Clients : pc[i] = "done"
    /\ Analyzed =>
          /\ Len(all_results) = Cardinality(Held)
          /\ \A r \in {HeldResult(ik) : ik \in Held} \cup
                      {all_results[k] : k \in DOMAIN all_results} :
                Occurrences(r, all_results) =
                    Cardinality({ik \in Held : HeldResult(ik) = r})

\* the merge has run on the buffers of a run in which every worker
\* completed an operation
C10_Witness ==
    /\ Analyzed
    /\ \A i \in Clients : Len(client_results[i]) >= 1

(***************************************************************************)
(* Properties of the setup: endpoints, client count, warmup, worker        *)
(* threads (specifications Spec and SpecSetup).                            *)
(***************************************************************************)
\* C11: an endpoint for which no client handle could be created is dropped
\* during preparation: no warmup operation and no operation of the timed
\* phase is attributed to it, and it is no key of endpoint_distribution.
C11_UnreachableEndpointIsDropped ==
    /\ (main_pc = "warmup" /\ warmup_ops > 0) =>
          warmup_client.returned.endpoint \in warmup_client.etcd_clients
    /\ \A ik \in Held : HeldResult(ik).endpoint \in etcd_clients[ik[1]]
    /\ analysis = "returned" =>
          \A e \in DOMAIN results.endpoint_distribution :
              \A i \in 1..config.num_clients : e \in etcd_clients[i]

\* no client object of the run has a handle for any endpoint
NoHandle == \A i \in 1..config.num_clients : etcd_clients[i] = {}

\* C12: when none of the endpoints (configured or detected) is reachable,
\* prepare_benchmark fails before any warmup operation is issued and before
\* any worker is started.
C12_NoReachableEndpointFailsSetup ==
    (main_pc # "start" /\ config.num_clients > 0 /\ NoHandle) =>
        /\ main_pc = "failed"
        /\ warmup_ops = 0
        /\ spawned = 0

\* C13: with a client count of 0 the run fails during setup, before any
\* work starts: no warmup operation is issued and the timed phase (worker
\* start, progress loop) is not entered.
C13_ZeroClientsFailsSetup ==
    config.num_clients = 0 =>
        /\ main_pc \in {"start", "failed"}
        /\ warmup_ops = 0
        /\ analysis = "none"

\* the workers whose thread has been started
Started == {i \in Clients : pc[i] # "new"}

\* C14: with warmup enabled all warmup operations are complete before the
\* first worker of the timed phase starts; they run through a client of
\* their own, and none of their results is in a worker buffer or in the
\* merged result set (which holds results of the worker buffers only).
C14_WarmupCompleteAndDiscarded ==
    /\ (config.warmup_time > 0 /\ (Started # {} \/ main_pc = "prepared")) =>
          /\ warmup_ops = WarmupOps
          /\ main_pc # "warmup"
    /\ main_pc = "warmup" =>
          /\ warmup_client.results = <<>>
          /\ warmup_ops <= WarmupOps
    /\ main_pc \in {"warmup", "prepared"} =>
          /\ Started = {}
          /\ Held = {}
          /\ all_results = <<>>
    /\ Analyzed =>
          \A k \in DOMAIN all_results :
              \E ik \in Held : HeldResult(ik) = all_results[k]

\* a run with warmup has merged the buffers of workers that hold results
C14_Witness ==
    /\ config.warmup_time > 0
    /\ warmup_ops = WarmupOps
    /\ Analyzed
    /\ AnyHeld

\* C15: run_benchmark starts exactly num_clients worker threads, one for
\* each client object, all bound to the one config, and the set of workers
\* does not change between the start of the run and the join.
C15_ExactlyNumClientsWorkers ==
    /\ [](/\ Started \subseteq 1..config.num_clients
          /\ spawned = Cardinality(Started)
          /\ (main_pc \in {"progress", "join", "analyze", "finished"}
                  \/ Analyzed) => Started = 1..config.num_clients)
    /\ [][(main_pc \in {"progress", "join", "analyze"}) =>
              (Started' = Started)]_vars
    /\ [][(main_pc # "start") => (config' = config)]_vars

\* every thread of a run with the most clients has been started and the
\* run is joining them
C15_Witness ==
    /\ main_pc = "join"
    /\ config.num_clients = NumClients
    /\ Started = Clients

(***************************************************************************)
(* Further properties of analyze_results (specifications SpecAgg and       *)
(* SpecOrder).                                                             *)
(***************************************************************************)
\* analyze_results on its own, for the comparison of the orders of a set
SpecOrder == InitAgg /\ [][NextAgg]_vars

\* the merged results in the order a permutation f of their positions gives
Permuted(all, f) == [k \in DOMAIN all |-> all[f[k]]]

\* C16: analyze_results gives the same outcome and the same record (errors
\* as a set) for every permutation of the merged results, hence for every
\* order in which the worker buffers are concatenated.
C16_AggregationIsOrderIndependent ==
    Analyzed =>
        \A f \in Permutations(DOMAIN all_results) :
            LET shuffled == Permuted(all_results, f) IN
            /\ \A single_ok \in BOOLEAN :
                  analyze_outcome(shuffled, actual_duration, single_ok)
                      = analyze_outcome(all_results, actual_duration, single_ok)
            /\ analysis = "returned" =>
                  analyze_results(shuffled, actual_duration) = results

\* a record was returned for a set of the most results, with a failure and
\* two successes of different latencies
C16_Witness ==
    /\ analysis = "returned"
    /\ Len(all_results) = MaxResults
    /\ results.failed_operations > 0
    /\ results.successful_operations >= 2
    /\ results.min_latency_ms # results.max_latency_ms

\* C17: the errors field holds each distinct error message of the failed
\* results once and nothing else: no message of a successful result, and no
\* failed result's message missing.
C17_ErrorsAreTheFailedMessages ==
    analysis = "returned" =>
        results.errors =
            {HeldResult(ik).error : ik \in {h \in Held : ~HeldResult(h).success}}

(***************************************************************************)
(* usl_analysis.py: the fit of the Universal Scalability Law                *)
(* C(N) = N / (1 + alpha (N - 1) + beta N (N - 1)) to the throughput of    *)
(* each workload (fit_usl_model, create_usl_analysis_plots, main) and the  *)
(* sweep for the optimal node count (calculate_usl_predictions).           *)
(* Coefficients, capacities and normalized throughputs are exact           *)
(* rationals; a rational with denominator 0 stands for the inf or nan a    *)
(* numpy division by zero gives.  The figure, and the error estimates and  *)
(* R-squared that only the figure and the report print, are left out.      *)
(***************************************************************************)
\* largest node count of a loaded result file
MaxNodeCount == 3
\* the coefficients handed to calculate_usl_predictions are k / Grid
Grid == 10

\* calculate_usl_predictions(alpha, beta, max_nodes=20)
max_nodes == 20

\* the workloads dict of create_usl_analysis_plots, in its order
workloads ==
    <<[name |-> "Sequential Writes", key |-> "sequential_writes"],
      [name |-> "Sequential Reads", key |-> "sequential_reads"],
      [name |-> "Concurrent Writes", key |-> "concurrent_writes"],
      [name |-> "Mixed Workload", key |-> "mixed_workload"]>>

WorkloadKeys == {workloads[k].key : k \in DOMAIN workloads}

\* operations_per_second (total_operations_per_second for the mixed
\* workload) of a result file
Throughputs == {0, 100}

\* what load_benchmark_results can return: for each node count that has a
\* result file, the throughput of every workload
Datasets ==
    UNION {[counts -> [WorkloadKeys -> Throughputs]] :
              counts \in SUBSET (1..MaxNodeCount)}

\* the coefficients a converged curve_fit returns, within its bounds
\* ([0, 0], [1, 1])
FitPoints ==
    {[alpha |-> Frac(0, Grid), beta |-> Frac(0, Grid)],
     [alpha |-> Frac(Grid, Grid), beta |-> Frac(1, Grid)]}

\* sorted(results.keys())
RECURSIVE sorted_keys(_)
sorted_keys(S) ==
    IF S = {} THEN <<>>
    ELSE LET m == CHOOSE x \in S : \A y \in S : x <= y
         IN <<m>> \o sorted_keys(S \ {m})

\* usl_function(N, alpha, beta)
usl_function(N, alpha, beta) ==
    Frac(N * alpha.den * beta.den,
         alpha.den * beta.den + alpha.num * beta.den * (N - 1)
             + beta.num * alpha.den * N * (N - 1))

\* np.array(throughput) / throughput[0]
normalize(throughput) ==
    [k \in DOMAIN throughput |-> Frac(throughput[k], throughput[1])]

\* what curve_fit(usl_function, nodes_array, normalized_throughput,
\* bounds=([0, 0], [1, 1]), maxfev=10000) does.  With bounds it uses the
\* method "trf", which accepts any number of data points: it raises
\* ValueError for data that are not finite, and otherwise returns the
\* coefficients or raises RuntimeError when the optimizer does not converge.
CurveFitOutcomes(ydata) ==
    IF \E k \in DOMAIN ydata : ydata[k].den = 0
    THEN {[raised |-> TRUE, alpha |-> Zero, beta |-> Zero]}
    ELSE {[raised |-> TRUE, alpha |-> Zero, beta |-> Zero]} \cup
         {[raised |-> FALSE, alpha |-> p.alpha, beta |-> p.beta] :
             p \in FitPoints}

\* fit_usl_model(nodes, throughput), given what curve_fit does: is_none
\* tells that the six values returned are None
fit_usl_model(nodes, throughput, fit) ==
    IF fit.raised
    THEN [is_none |-> TRUE, alpha |-> Zero, beta |-> Zero,
          normalized_throughput |-> <<>>]
    ELSE [is_none |-> FALSE, alpha |-> fit.alpha, beta |-> fit.beta,
          normalized_throughput |-> normalize(throughput)]

\* the index of the smallest capacity
argmin(capacity) ==
    CHOOSE j \in DOMAIN capacity :
        /\ \A k \in DOMAIN capacity : Leq(capacity[j], capacity[k])
        /\ \A k \in 1..(j - 1) : ~Leq(capacity[k], capacity[j])

\* np.argmax(capacity): the first index of the largest capacity
argmax(capacity) ==
    CHOOSE j \in DOMAIN capacity :
        /\ \A k \in DOMAIN capacity : Leq(capacity[k], capacity[j])
        /\ \A k \in 1..(j - 1) : ~Leq(capacity[j], capacity[k])

\* calculate_usl_predictions(alpha, beta): optimal_nodes, optimal_capacity
calculate_usl_predictions(alpha, beta) ==
    LET nodes == [k \in 1..max_nodes |-> k]
        capacity == [k \in 1..max_nodes |-> usl_function(nodes[k], alpha, beta)]
        optimal_idx == argmax(capacity)
    IN [optimal_nodes |-> nodes[optimal_idx],
        optimal_capacity |-> capacity[optimal_idx]]

\* the state of the benchmark tool, which usl_analysis.py leaves alone
bench_vars ==
    <<now, main_vars, client_results, running, pc, run_start, inflight,
      stop_called, started_after_stop>>

\* main of usl_analysis.py after load_benchmark_results: "if not results:
\* return", else create_usl_analysis_plots is entered
UslMain ==
    /\ usl_pc = "loaded"
    /\ usl_pc' = IF DOMAIN usl_results = {} THEN "no_results" ELSE "fitting"
    /\ UNCHANGED <<bench_vars, ctl_vars, usl_results, fitted, analyses,
                   prediction, fit_failures>>

\* create_usl_analysis_plots: one pass of the loop over the workloads.  The
\* throughput of the workload is read for the sorted node counts and
\* fitted; an entry of analyses is made unless the fit returned None.
FitWorkload ==
    /\ usl_pc = "fitting"
    /\ fitted < Len(workloads)
    /\ LET workload == workloads[fitted + 1]
           nodes == sorted_keys(DOMAIN usl_results)
           throughput ==
               [k \in DOMAIN nodes |-> usl_results[nodes[k]][workload.key]]
       IN \E fit \in CurveFitOutcomes(normalize(throughput)) :
             LET r == fit_usl_model(nodes, throughput, fit) IN
             /\ fit_failures' = IF fit.raised
                                THEN fit_failures \cup {workload.name}
                                ELSE fit_failures
             /\ analyses' =
                 IF r.is_none THEN analyses
                 ELSE analyses @@
                      (workload.name :>
                          [alpha |-> r.alpha, beta |-> r.beta,
                           nodes |-> nodes, throughput |-> throughput,
                           normalized_throughput |-> r.normalized_throughput])
    /\ fitted' = fitted + 1
    /\ UNCHANGED <<bench_vars, ctl_vars, usl_results, usl_pc, prediction>>

\* create_usl_analysis_plots returns (fig, analyses); main saves the plots
\* and the report "if fig and analyses", and does neither with no analysis
FinishAnalysis ==
    /\ usl_pc = "fitting"
    /\ fitted = Len(workloads)
    /\ usl_pc' = IF DOMAIN analyses # {} THEN "reported" ELSE "no_report"
    /\ UNCHANGED <<bench_vars, ctl_vars, usl_results, fitted, analyses,
                   prediction, fit_failures>>

\* a call of calculate_usl_predictions(alpha, beta)
CalculatePredictions ==
    /\ usl_pc = "predict"
    /\ LET p == calculate_usl_predictions(prediction.alpha, prediction.beta)
       IN prediction' =
              [prediction EXCEPT !.optimal_nodes = p.optimal_nodes,
                                 !.optimal_capacity = p.optimal_capacity]
    /\ usl_pc' = "predicted"
    /\ UNCHANGED <<bench_vars, ctl_vars, usl_results, fitted, analyses,
                   fit_failures>>

\* main of usl_analysis.py on the result files load_benchmark_results found
InitUSL ==
    /\ config = RunConfig
    /\ NoRun
    /\ usl_results \in Datasets
    /\ usl_pc = "loaded"
    /\ fitted = 0
    /\ analyses = <<>>
    /\ prediction = None
    /\ fit_failures = {}
    /\ mixed = None
    /\ cw = None

NextUSL == UslMain \/ FitWorkload \/ FinishAnalysis

SpecUSL == InitUSL /\ [][NextUSL]_vars

\* calculate_usl_predictions on its own, for coefficients on a grid of [0,1]
InitPredict ==
    /\ config = RunConfig
    /\ NoRun
    /\ usl_results = <<>>
    /\ usl_pc = "predict"
    /\ fitted = 0
    /\ analyses = <<>>
    /\ fit_failures = {}
    /\ mixed = None
    /\ cw = None
    /\ \E a \in 0..Grid, b \in 0..Grid :
          prediction = [alpha |-> Frac(a, Grid), beta |-> Frac(b, Grid),
                        optimal_nodes |-> 0, optimal_capacity |-> Zero]

NextPredict == CalculatePredictions

SpecPredict == InitPredict /\ [][NextPredict]_vars

(***************************************************************************)
(* Properties of the scalability analysis (specifications SpecUSL and      *)
(* SpecPredict).                                                           *)
(***************************************************************************)
\* C18: a dataset with fewer than 3 distinct node counts makes the fit
\* fail: fit_usl_model returns no coefficients for it and no entry of
\* analyses is made for the workload.
C18_FewerThanThreeNodeCountsIsNotFitted ==
    \A w \in DOMAIN analyses : Len(analyses[w].nodes) >= 3

\* the key of the workload with this name
KeyOf(w) == (CHOOSE k \in DOMAIN workloads : workloads[k].name = w)

\* C19: every throughput sample is divided by the sample measured at node
\* count 1: a fitted dataset has node count 1, the divisor is its
\* throughput there, and the normalized value at node count 1 is 1.
C19_NormalizedByTheSingleNodeSample ==
    \A w \in DOMAIN analyses :
        LET a == analyses[w]
            key == workloads[KeyOf(w)].key
        IN /\ 1 \in DOMAIN usl_results
           /\ a.nodes[1] = 1
           /\ a.normalized_throughput[1].num = a.normalized_throughput[1].den
           /\ \A k \in DOMAIN a.nodes :
                 a.normalized_throughput[k] =
                     Frac(usl_results[a.nodes[k]][key], usl_results[1][key])

\* C20: for alpha and beta in [0,1], calculate_usl_predictions returns an
\* optimal node count N* in 1..20 with C(N*) >= C(N) for every N in 1..20,
\* and the maximum capacity it reports is C(N*).
C20_OptimalNodeCountIsTheArgmax ==
    usl_pc = "predicted" =>
        LET a == prediction.alpha
            b == prediction.beta
            D(N) == a.den * b.den + a.num * b.den * (N - 1)
                        + b.num * a.den * N * (N - 1)
            best == prediction.optimal_nodes
            cap == prediction.optimal_capacity
        IN /\ best \in 1..20
           /\ \A N \in 1..20 : best * D(N) >= N * D(best)
           /\ cap.den > 0
           /\ cap.num * D(best) = best * a.den * b.den * cap.den

\* the sweep has run for coefficients whose optimum is inside 2..19
C20_Witness ==
    /\ usl_pc = "predicted"
    /\ prediction.alpha.num > 0
    /\ prediction.beta.num > 0
    /\ prediction.optimal_nodes \in 2..19

\* the workloads the fitting loop has dealt with
Processed == {workloads[k].name : k \in 1..fitted}

\* the dataset has fewer than 3 distinct node counts
Underdetermined == Cardinality(DOMAIN usl_results) < 3

\* C21: a workload whose fit fails (underdetermined data, or the optimizer
\* does not converge) is omitted from analyses and from the report, and it
\* alone: every other workload dealt with has its entry, and the run ends
\* with the report when there is an entry and without failure otherwise.
C21_FailedFitOmitsOnlyItsCategory ==
    /\ DOMAIN analyses \subseteq Processed
    /\ \A w \in Processed :
          (w \in fit_failures \/ Underdetermined) <=> w \notin DOMAIN analyses
    /\ usl_pc = "reported" => DOMAIN analyses # {}
    /\ usl_pc = "no_report" => DOMAIN analyses = {}

(***************************************************************************)
(* Properties of the worker loop and of run_benchmark (specifications      *)
(* Spec, SpecStop, SpecEarly and SpecLive).                                *)
(***************************************************************************)
\* C22: a worker begins an operation only after the test at the top of its
\* loop found its running flag set and its own elapsed time below the
\* duration; the test is made once per iteration, and an operation in
\* flight is never interrupted: its result is appended before the worker
\* returns to the test, which is the only place the loop is left.
C22_DeadlinePolledAtLoopTop ==
    [][\A i \in Clients :
          /\ (pc'[i] = "body" /\ pc[i] # "body") =>
                /\ pc[i] = "loop"
                /\ running[i]
                /\ now - run_start[i] < Duration
          /\ (pc'[i] = "call" /\ pc[i] # "call") => pc[i] = "body"
          /\ (Len(client_results'[i]) # Len(client_results[i])) =>
                /\ pc[i] \in {"body", "ret"}
                /\ pc'[i] = "loop"
          /\ (pc[i] \in {"body", "call", "ret"}) =>
                pc'[i] \in {pc[i], "call", "ret", "loop"}
          /\ (pc[i] = "ret" /\ pc'[i] # "ret") =>
                /\ pc'[i] = "loop"
                /\ Len(client_results'[i]) = Len(client_results[i]) + 1
          /\ (pc'[i] = "done" /\ pc[i] # "done") =>
                /\ pc[i] = "loop"
                /\ ~(running[i] /\ now - run_start[i] < Duration)
      ]_vars

\* the deadline of a worker has passed while its operation is in flight
C22_Witness ==
    \E i \in Clients :
        /\ pc[i] \in {"call", "ret"}
        /\ now - run_start[i] >= Duration

\* C23: a worker's result buffer is changed only by a step of that worker
\* and only by appending one result; the steps of the orchestrator and of
\* the progress observer leave every buffer and every running flag
\* unchanged, and whatever they do, a worker that has a step to take can
\* take it.
C23_BuffersOwnedByTheirWorker ==
    /\ [][\A i \in Clients :
            (client_results'[i] # client_results[i]) =>
                /\ pc[i] \in {"body", "ret"}
                /\ pc'[i] = "loop"
                /\ Len(client_results'[i]) = Len(client_results[i]) + 1
                /\ SubSeq(client_results'[i], 1, Len(client_results[i]))
                      = client_results[i]
                /\ \A j \in Clients \ {i} :
                      client_results'[j] = client_results[j]
         ]_vars
    /\ [][(\/ main_pc' # main_pc
           \/ next_poll' # next_poll
           \/ last_report' # last_report
           \/ spawned' # spawned
           \/ joined' # joined) =>
              (/\ client_results' = client_results
               /\ running' = running)
         ]_vars
    /\ [](\A i \in Clients :
            /\ pc[i] = "created" => ENABLED RunStart(i)
            /\ (pc[i] = "loop" /\ ~LoopCondition(i)) => ENABLED LoopTop(i)
            /\ pc[i] = "body" => ENABLED BeginOperation(i)
            /\ pc[i] = "call" => ENABLED StoreResponds(i)
            /\ pc[i] = "ret" => ENABLED ReturnResult(i))

\* a worker has appended two results while report_progress is polling
C23_Witness ==
    /\ main_pc = "progress"
    /\ next_poll > 0
    /\ \E i \in Clients : Len(client_results[i]) = 2

\* C27: without any call of stop(), when every store call returns and the
\* clock advances, every worker leaves its loop once its elapsed time has
\* reached the duration, the progress loop ends, and run_benchmark returns
\* after joining the worker threads.
C27_EveryRunTerminates ==
    /\ \A i \in Clients :
          (pc[i] \in {"loop", "body", "call", "ret"}
              /\ now - run_start[i] >= Duration) ~> (pc[i] = "done")
    /\ (main_pc = "progress") ~> (main_pc = "join")
    /\ <>(main_pc = "analyze" /\ joined = config.num_clients)

\* run_benchmark has returned and every worker holds a result
C27_Witness ==
    /\ main_pc = "analyze"
    /\ joined = NumClients
    /\ \A i \in Clients : pc[i] = "done" /\ Len(client_results[i]) >= 1

\* C29: run_benchmark does not return before the duration has elapsed
\* since its start, also when every worker has left its loop early or
\* there is no worker: the actual_duration it returns is at least the
\* duration, and positive when the duration is.
C29_ReturnsNoEarlierThanDuration ==
    /\ main_pc \in {"join", "analyze", "finished"} =>
          now - bench_start >= Duration
    /\ (main_pc \in {"analyze", "finished"} \/ Analyzed) =>
          /\ actual_duration >= Duration
          /\ Duration > 0 => actual_duration > 0

\* run_benchmark has returned from a run in which every worker was stopped
\* before it began an operation
C29_Witness ==
    /\ main_pc = "analyze"
    /\ config.num_clients >= 1
    /\ \A i \in 1..config.num_clients :
          stop_called[i] /\ client_results[i] = <<>>

(***************************************************************************)
(* Properties of the latency statistics (specifications SpecAgg and        *)
(* SpecOrder).                                                             *)
(***************************************************************************)
\* the two values are the same number
SameValue(f, g) == Leq(f, g) /\ Leq(g, f)

\* the nearest-rank percentile: sorted[ceil(p * n) - 1] with p = k / 100
\* (counted from 0), the ceiling taken in integers
NearestRank(data, k) ==
    Frac(Sorted(data)[(k * Len(data) + 99) \div 100], 1)

\* p50, p95 and p99 of the statistics are the nearest-rank percentiles of
\* the sample
IsNearestRank(stats, data) ==
    /\ SameValue(stats.p50, NearestRank(data, 50))
    /\ SameValue(stats.p95, NearestRank(data, P95))
    /\ SameValue(stats.p99, NearestRank(data, P99))

\* the overall latency statistics of a BenchmarkResults, as calc_percentiles
\* returns them
OverallStats(r) ==
    Stats(r.avg_latency_ms, r.min_latency_ms, r.max_latency_ms,
          r.p50_latency_ms, r.p95_latency_ms, r.p99_latency_ms)

\* C24: for a non-empty sample of n successful latencies the reported p50,
\* p95 and p99 equal sorted[ceil(p*n) - 1], an element of the sample chosen
\* by the nearest-rank rule; for the overall, the read and the write sample.
C24_PercentilesAreNearestRank ==
    analysis = "returned" =>
        /\ SampleSize(BothKinds) > 0 =>
              IsNearestRank(OverallStats(results),
                            successful_latencies(all_results))
        /\ SampleSize({"read"}) > 0 =>
              IsNearestRank(results.read_latency_stats,
                            read_latencies(all_results))
        /\ SampleSize({"write"}) > 0 =>
              IsNearestRank(results.write_latency_stats,
                            write_latencies(all_results))

\* min <= p50 <= p95 <= p99 <= max
WithinRange(stats) ==
    /\ Leq(stats.min, stats.p50)
    /\ Leq(stats.p50, stats.p95)
    /\ Leq(stats.p95, stats.p99)
    /\ Leq(stats.p99, stats.max)

\* C28: for a sample of at least two successful latencies the reported p50,
\* p95 and p99 lie between the reported minimum and maximum:
\* min <= p50 <= p95 <= p99 <= max; for the overall, the read and the write
\* sample.
C28_PercentilesWithinMinAndMax ==
    analysis = "returned" =>
        /\ SampleSize(BothKinds) >= 2 => WithinRange(OverallStats(results))
        /\ SampleSize({"read"}) >= 2 =>
              WithinRange(results.read_latency_stats)
        /\ SampleSize({"write"}) >= 2 =>
              WithinRange(results.write_latency_stats)

\* every latency statistic of a BenchmarkResults
LatencyStats(r) ==
    <<OverallStats(r), r.read_latency_stats, r.write_latency_stats>>

\* C25: the latency statistics are those of the merged set with every
\* failed result removed, so failed results, whatever they are and however
\* many, do not change them; a kind with no successful result, and the
\* overall sample when nothing succeeded, has all its statistics 0.
C25_StatisticsOfSuccessesOnly ==
    analysis = "returned" =>
        LET kept == SelectSeq(all_results, IsSuccess)
        IN /\ kept # <<>> =>
                 LatencyStats(results)
                    = LatencyStats(analyze_results(kept, actual_duration))
           /\ SampleSize(BothKinds) = 0 => OverallStats(results) = ZeroStats
           /\ SampleSize({"read"}) = 0 =>
                 results.read_latency_stats = ZeroStats
           /\ SampleSize({"write"}) = 0 =>
                 results.write_latency_stats = ZeroStats

\* statistics returned for a merged set with two successful reads, a failed
\* result and no successful write
C25_Witness ==
    /\ analysis = "returned"
    /\ SampleSize({"read"}) = 2
    /\ SampleSize({"write"}) = 0
    /\ \E ik \in Held : ~HeldResult(ik).success

(***************************************************************************)
(* benchmark.py: benchmark_mixed_workload.                                 *)
(***************************************************************************)
\* iterations of the timed loop of benchmark_mixed_workload that are followed
MaxMixedOps == 110

\* read_ratio is a multiple of 1 / RatioGrid between 0 and 1
RatioGrid == 20

\* etcdctl commands of a run that fail
MaxMixedFailures == 1

\* the numerators of read_ratio
ReadRatios == 0..RatioGrid

\* usl_analysis.py is not running
UslIdle ==
    /\ fit_failures = {}
    /\ usl_results = <<>>
    /\ usl_pc = "idle"
    /\ fitted = 0
    /\ analyses = <<>>
    /\ prediction = None

\* a selection that never reads
should_read_never(operation_count, read_ratio) == FALSE

\* "should_read = (operation_count % 10) < (read_ratio * 10)" in the branch
\* of "if (operation_count % 100) == 0"; read_ratio is the numerator over
\* RatioGrid
should_read_hundredth(operation_count, read_ratio) ==
    (operation_count % 10) * RatioGrid < read_ratio * 10

\* the same assignment in the else branch
should_read_otherwise(operation_count, read_ratio) ==
    (operation_count % 10) * RatioGrid < read_ratio * 10

should_read(operation_count, read_ratio) ==
    IF (operation_count % 100) = 0
    THEN should_read_hundredth(operation_count, read_ratio)
    ELSE should_read_otherwise(operation_count, read_ratio)

\* the locals of benchmark_mixed_workload before it is called; decisions is
\* the history of should_read over the last ten iterations
NoMixed ==
    [pc |-> "idle", read_ratio |-> 0, populated |-> 0, operation_count |-> 0,
     read_count |-> 0, write_count |-> 0, read_failures |-> 0,
     write_failures |-> 0, decisions |-> <<>>, total_operations |-> 0]

\* the last ten decisions
LastTen(ds) == IF Len(ds) <= 10 THEN ds ELSE SubSeq(ds, Len(ds) - 9, Len(ds))

\* the call, the zeroed counters and the loop that puts 100 keys (the
\* outcome of these puts is ignored)
MixedStart ==
    /\ mixed.pc = "idle"
    /\ \E read_ratio \in ReadRatios :
          mixed' = [mixed EXCEPT !.pc = "loop", !.read_ratio = read_ratio,
                                 !.populated = 100]
    /\ UNCHANGED <<bench_vars, usl_vars, cw>>

\* one iteration of "while time.time() < end_time": the count, the
\* selection, the etcdctl command and the counter of its outcome
MixedOperation ==
    /\ mixed.pc = "loop"
    /\ mixed.operation_count < MaxMixedOps
    /\ \E success \in BOOLEAN :
          LET operation_count == mixed.operation_count + 1
              read == should_read(operation_count, mixed.read_ratio)
          IN /\ ~success =>
                   mixed.read_failures + mixed.write_failures < MaxMixedFailures
             /\ mixed' =
                   [mixed EXCEPT
                      !.operation_count = operation_count,
                      !.decisions = LastTen(Append(@, read)),
                      !.read_count = IF read /\ success THEN @ + 1 ELSE @,
                      !.read_failures = IF read /\ ~success THEN @ + 1 ELSE @,
                      !.write_count = IF ~read /\ success THEN @ + 1 ELSE @,
                      !.write_failures =
                          IF ~read /\ ~success THEN @ + 1 ELSE @]
    /\ UNCHANGED <<bench_vars, usl_vars, cw>>

\* the loop test fails (the time is up) and the dictionary is returned
MixedReturn ==
    /\ mixed.pc = "loop"
    /\ mixed' = [mixed EXCEPT
                    !.pc = "returned",
                    !.total_operations = mixed.read_count + mixed.write_count]
    /\ UNCHANGED <<bench_vars, usl_vars, cw>>

InitMixed ==
    /\ config = RunConfig
    /\ NoRun
    /\ UslIdle
    /\ cw = None
    /\ mixed = NoMixed

NextMixed == MixedStart \/ MixedOperation \/ MixedReturn

SpecMixed == InitMixed /\ [][NextMixed]_vars

\* the reads among the decisions
ReadsIn(ds) == Cardinality({k \in DOMAIN ds : ds[k]})

\* C26: both branches of the if/else of benchmark_mixed_workload give the
\* same decision, should_read = (operation_count mod 10) < read_ratio * 10,
\* for every operation_count, and every ten consecutive operations hold
\* exactly ceil(10 * read_ratio) reads (7 reads, 3 writes for 0.7).
C26_SameDecisionInBothBranches ==
    mixed.pc # "idle" =>
        /\ \A n \in 1..MaxMixedOps :
              /\ should_read_hundredth(n, mixed.read_ratio)
                    = should_read_otherwise(n, mixed.read_ratio)
              /\ should_read(n, mixed.read_ratio)
                    = ((n % 10) * RatioGrid < mixed.read_ratio * 10)
        /\ Len(mixed.decisions) = 10 =>
              /\ ReadsIn(mixed.decisions)
                    = (10 * mixed.read_ratio + RatioGrid - 1) \div RatioGrid
              /\ 10 * mixed.read_ratio = 7 * RatioGrid =>
                    ReadsIn(mixed.decisions) = 7
        /\ mixed.decisions # <<>> =>
              mixed.decisions[Len(mixed.decisions)]
                 = ((mixed.operation_count % 10) * RatioGrid
                       < mixed.read_ratio * 10)

\* the hundredth operation has been selected in a run that mixes reads and
\* writes
C26_Witness ==
    /\ mixed.operation_count = 100
    /\ ReadsIn(mixed.decisions) \in 1..9

(***************************************************************************)
(* benchmark.py: benchmark_concurrent_writes.                              *)
(***************************************************************************)
MaxTotalOps == 4

MaxConcurrency == 3

Threads == 1..MaxConcurrency

\* every thread given total_ops // concurrency operations
ops_count_without_remainder(thread_id, ops_per_thread, remaining_ops) ==
    ops_per_thread

\* "ops_count = ops_per_thread + (1 if thread_id < remaining_ops else 0)"
ops_count(thread_id, ops_per_thread, remaining_ops) ==
    ops_per_thread + (IF thread_id < remaining_ops THEN 1 ELSE 0)

\* thread_results = {"successful": 0, "failed": 0}
NoThreadResults == [successful |-> 0, failed |-> 0]

\* the locals of benchmark_concurrent_writes before it is called; thread t
\* of the model is thread_id t - 1
NoConcurrentWrites ==
    [pc |-> "idle", total_ops |-> 0, concurrency |-> 1, submitted |-> 0,
     thread_pc |-> [t \in Threads |-> "none"],
     ops_count |-> [t \in Threads |-> 0],
     i |-> [t \in Threads |-> 0],
     thread_results |-> [t \in Threads |-> NoThreadResults],
     results |-> <<>>,
     total_operations |-> 0, successful_operations |-> 0,
     failed_operations |-> 0]

\* the call
ConcurrentStart ==
    /\ cw.pc = "idle"
    /\ \E total_ops \in 0..MaxTotalOps, concurrency \in Threads :
          cw' = [cw EXCEPT !.pc = "submit", !.total_ops = total_ops,
                           !.concurrency = concurrency]
    /\ UNCHANGED <<bench_vars, usl_vars, mixed>>

\* one pass of "for thread_id in range(concurrency)": executor.submit
Submit ==
    /\ cw.pc = "submit"
    /\ IF cw.submitted < cw.concurrency
       THEN LET t == cw.submitted + 1
                ops_per_thread == cw.total_ops \div cw.concurrency
                remaining_ops == cw.total_ops % cw.concurrency
            IN cw' = [cw EXCEPT
                        !.submitted = t,
                        !.thread_pc[t] = "running",
                        !.ops_count[t] =
                            ops_count(t - 1, ops_per_thread, remaining_ops)]
       ELSE cw' = [cw EXCEPT !.pc = "collect"]
    /\ UNCHANGED <<bench_vars, usl_vars, mixed>>

\* worker_thread: one pass of "for i in range(ops_count)", or its return
WorkerThread(t) ==
    /\ cw.thread_pc[t] = "running"
    /\ IF cw.i[t] < cw.ops_count[t]
       THEN \E success \in BOOLEAN :
               cw' = [cw EXCEPT
                        !.i[t] = @ + 1,
                        !.thread_results[t].successful =
                            IF success THEN @ + 1 ELSE @,
                        !.thread_results[t].failed =
                            IF success THEN @ ELSE @ + 1]
       ELSE cw' = [cw EXCEPT !.thread_pc[t] = "completed"]
    /\ UNCHANGED <<bench_vars, usl_vars, mixed>>

RECURSIVE SumField(_, _)
\* sum(r[field] for r in results)
SumField(rs, field) ==
    IF rs = <<>> THEN 0
    ELSE rs[1][field] + SumField(Tail(rs), field)

\* one pass of "for future in as_completed(futures)": the result of a future
\* that is done is appended; after the last one the dictionary is returned
Collect ==
    /\ cw.pc = "collect"
    /\ IF Len(cw.results) < cw.concurrency
       THEN \E t \in Threads :
               /\ cw.thread_pc[t] = "completed"
               /\ cw' = [cw EXCEPT
                           !.thread_pc[t] = "collected",
                           !.results = Append(@, cw.thread_results[t])]
       ELSE cw' = [cw EXCEPT
                     !.pc = "returned",
                     !.total_operations = cw.total_ops,
                     !.successful_operations =
                         SumField(cw.results, "successful"),
                     !.failed_operations = SumField(cw.results, "failed")]
    /\ UNCHANGED <<bench_vars, usl_vars, mixed>>

InitConcurrent ==
    /\ config = RunConfig
    /\ NoRun
    /\ UslIdle
    /\ mixed = None
    /\ cw = NoConcurrentWrites

NextConcurrent ==
    \/ ConcurrentStart
    \/ Submit
    \/ \E t \in Threads : WorkerThread(t)
    \/ Collect

SpecConcurrent == InitConcurrent /\ [][NextConcurrent]_vars

RECURSIVE SumTo(_, _)
\* the sum of the first k entries
SumTo(f, k) == IF k = 0 THEN 0 ELSE SumTo(f, k - 1) + f[k]

\* C30: the operation counts given to the threads of
\* benchmark_concurrent_writes sum to total_ops and any two of them differ
\* by one at most (also when concurrency > total_ops); when all threads
\* have finished, however they were interleaved, successful_operations +
\* failed_operations = total_operations = total_ops.
C30_ConcurrentWritesCountEveryOperation ==
    /\ cw.pc \in {"collect", "returned"} =>
          /\ SumTo(cw.ops_count, cw.concurrency) = cw.total_ops
          /\ \A t, u \in 1..cw.concurrency :
                cw.ops_count[t] - cw.ops_count[u] <= 1
    /\ cw.pc = "returned" =>
          /\ cw.total_operations = cw.total_ops
          /\ cw.successful_operations + cw.failed_operations
                = cw.total_operations

\* returned with more threads than operations, a success and a failure
C30_Witness ==
    /\ cw.pc = "returned"
    /\ cw.concurrency > cw.total_ops
    /\ cw.successful_operations >= 1
    /\ cw.failed_operations >= 1

=============================================================================
